---------------------------- MODULE Spec2Model ----------------------------
(***************************************************************************)
(* DriveSync: bidirectional sync between a local folder and a Google Drive *)
(* folder (src/google_drive_sync.py, src/main.py).                         *)
(*                                                                         *)
(* The model follows the code of GoogleDriveSync: the in-memory Ledger     *)
(* (self.metadata['files']), the persisted document (METADATA_FILE), the   *)
(* local tree, the remote tree (folders and files under the sync root),    *)
(* the main thread's position in sync()/run()/main() and the position of   *)
(* every worker of the thread pools of sync_up and sync_down.              *)
(*                                                                         *)
(* Spec follows the sync of two paths from _load_metadata on, with         *)
(* injected failures, one KeyboardInterrupt and edits of the user between  *)
(* cycles.  PoolSpec follows the thread pools of one cycle with more work  *)
(* items than a pool has threads.                                          *)
(***************************************************************************)
EXTENDS Naturals, Integers, Sequences, FiniteSets, TLC

(***************************************************************************)
(* Bounds of the model.                                                    *)
(***************************************************************************)
\* Number of sync() calls a run of the loop is followed for.
MaxCycles == 3
\* Number of injected failures (exceptions of the OS or of the remote API).
MaxFailures == 1
\* Number of edits the user makes to local files while the loop sleeps.
MaxEdits == 1
\* Largest number of work items of a transfer phase, PoolSpec.
MaxItems == 11
\* Shape of the remote tree PoolSpec scans: folders under the root, and
\* subfolders in each of them.
ScanFan1 == 2
ScanFan2 == 6

(***************************************************************************)
(* Program constants.                                                      *)
(***************************************************************************)
\* Max parallel threads of a pool.
MAX_WORKERS == 10

(***************************************************************************)
(* The universe of relative paths: two files of the same subfolder "d", so *)
(* that _get_drive_path gives the folder path ["d"] for both.              *)
(***************************************************************************)
Paths == {"d/b", "d/c"}

\* os.path.basename(local_path)
NameOf(p) == IF p = "d/b" THEN "b" ELSE "c"

Names == {NameOf(p) : p \in Paths}

\* os.path.join(prefix, file_name) for a file of subfolder "d"
PathOf(n) == CHOOSE p \in Paths : NameOf(p) = n

\* Ids the remote store hands out to folders named "d" under the root: at
\* most one per upload worker resolving the folder.
FolderIds == 1 .. Cardinality(Paths)

\* A remote file object: the id of a file is its (parent folder, name).
FileIds == FolderIds \X Names

VARIABLES
    localFiles,     \* local tree: rel_path -> [mtime, content]
    driveFolders,   \* ids of the non-trashed folders "d" under the root
    driveFiles,     \* remote files: id -> [mtime, content]
    metadata,       \* self.metadata['files']: rel_path -> record
    metadataFile,   \* METADATA_FILE: [state, doc]
    mode,           \* "loop" (run) or "once" (--sync-once)
    pc,             \* position of the main thread
    wpc,            \* position of the pool worker of each path
    wvar,           \* locals of the pool worker of each path
    files_to_upload,   \* sync_up's work list
    files_to_download, \* sync_down's work list: rel_path -> [id, mtime]
    drive_files,    \* result of _scan_drive_files: rel_path -> [id, mtime]
    subfolders,     \* subfolders whose scan is still running
    uploaded,       \* sync_up's counter
    downloaded,     \* sync_down's counter
    clock,          \* local time: larger than every local mtime
    rclock,         \* remote time: larger than every remote modifiedTime
    cycle,          \* number of sync() calls started
    failures,       \* number of failures injected
    interrupts,     \* number of KeyboardInterrupts delivered
    cur,            \* observations of the cycle in progress
    hist,           \* observations of the finished cycles
    loaded,         \* what _load_metadata returned: "none" before the call
    edits,          \* number of edits the user made to local files
    executor,       \* the pool of a transfer phase with many work items
    scanTree        \* the pools of the scan of a tree of nested folders

vars == <<localFiles, driveFolders, driveFiles, metadata, metadataFile, mode,
          pc, wpc, wvar, files_to_upload, files_to_download, drive_files,
          subfolders, uploaded, downloaded, clock, rclock, cycle, failures,
          interrupts, cur, hist, loaded, edits, executor, scanTree>>

\* The variables of the sync of the two paths.
syncVars == <<localFiles, driveFolders, driveFiles, metadata, metadataFile, mode,
              pc, wpc, wvar, files_to_upload, files_to_download, drive_files,
              subfolders, uploaded, downloaded, clock, rclock, cycle, failures,
              interrupts, cur, hist, loaded, edits>>

\* The folders under the root of the tree PoolSpec scans.
Folders1 == 1 .. ScanFan1

\* No pool exists.
IdleExecutor ==
    [pc |-> "idle", items |-> 0, queued |-> 0, running |-> 0, ok |-> 0,
     err |-> 0, writes |-> 0]

IdleScan ==
    [folder |-> [i \in Folders1 |-> "none"],
     queued |-> [i \in Folders1 |-> 0],
     listing |-> [i \in Folders1 |-> 0],
     done |-> [i \in Folders1 |-> 0]]

\* dict assignment d[k] = v
Put(d, k, v) == [x \in (DOMAIN d) \cup {k} |-> IF x = k THEN v ELSE d[x]]

EmptyDict == [x \in {} |-> 0]

\* Locals of a worker that is not running.
NoVar == [mtime |-> 0, parent |-> 0, fh |-> "none"]

\* The remote objects whose relative path is p.
ObjectsAt(files, p) == {i \in DOMAIN files : i[2] = NameOf(p)}

\* What a cycle records for the properties: the state at its start, its work
\* lists, the conflicts it reported, the transfers it started, the transfers
\* and scans that failed, the remote objects it created, whether an exception
\* reached sync()'s handler ("Sync failed") and whether sync() wrote the
\* document.
NewCycle(k) ==
    [n |-> k, doc0 |-> metadataFile.state,
     local0 |-> localFiles, ledger0 |-> metadata, drive0 |-> driveFiles,
     up |-> {}, down |-> {}, conflicts |-> {},
     triedUp |-> {}, triedDown |-> {}, failedUp |-> {}, failedDown |-> {},
     created |-> {}, scanFailed |-> FALSE, aborted |-> FALSE,
     saveFailed |-> FALSE, saved |-> FALSE, upDone |-> FALSE,
     downDone |-> FALSE, editedAfter |-> {}]

(***************************************************************************)
(* Initial states: __init__ is about to call _load_metadata.  The document *)
(* is the one an earlier run wrote ("complete"), or it is damaged: text    *)
(* that json cannot parse ("truncated"), or JSON that parses to a value    *)
(* without a 'files' mapping ("wrong_shape", for example {} or []).  Since *)
(* the document was written the local tree and the remote tree may each    *)
(* have changed.  A recorded path has local mtime 2 and remote             *)
(* modifiedTime 1 in the Ledger; its local file is absent, older (1),      *)
(* unchanged (2) or newer (3), its remote object is absent, unchanged (1)  *)
(* or changed (2).                                                         *)
(***************************************************************************)
DocStates == {"complete", "truncated", "wrong_shape"}

InitLedgerRecord(p) ==
    [mtime |-> 2, drive_id |-> <<1, NameOf(p)>>, drive_mtime |-> 1]

Init ==
    /\ \E L \in SUBSET Paths, R \in SUBSET Paths, M \in SUBSET Paths :
         /\ \E lm \in [L -> 1..3] :
              /\ \A p \in L \ M : lm[p] = 2
              /\ localFiles = [p \in L |-> [mtime |-> lm[p], content |-> "l0"]]
         /\ \E rm \in [R -> 1..2] :
              /\ \A p \in R \ M : rm[p] = 1
              /\ driveFiles = [i \in {<<1, NameOf(p)>> : p \in R} |->
                                 [mtime |-> rm[PathOf(i[2])], content |-> "r0"]]
         /\ \E s \in DocStates :
              /\ s # "complete" => M = {}
              /\ metadataFile = [state |-> s,
                                 doc |-> [p \in M |-> InitLedgerRecord(p)]]
         /\ driveFolders \in (IF R = {} THEN {{}, {1}} ELSE {{1}})
    /\ metadata = EmptyDict
    /\ loaded = "none"
    /\ edits = 0
    /\ mode \in {"loop", "once"}
    /\ pc = "load"
    /\ wpc = [p \in Paths |-> "none"]
    /\ wvar = [p \in Paths |-> NoVar]
    /\ files_to_upload = {}
    /\ files_to_download = EmptyDict
    /\ drive_files = EmptyDict
    /\ subfolders = {}
    /\ uploaded = 0
    /\ downloaded = 0
    /\ clock = 4
    /\ rclock = 3
    /\ cycle = 0
    /\ failures = 0
    /\ interrupts = 0
    /\ cur = NewCycle(0)
    /\ hist = <<>>
    /\ executor = IdleExecutor
    /\ scanTree = IdleScan

(***************************************************************************)
(* Helpers of the orchestrator.                                            *)
(***************************************************************************)
\* Where the main thread goes when sync() returns: back into run()'s loop
\* (time.sleep), or out of main() in single-shot mode.
AfterSync == IF mode = "loop" THEN "sleep" ELSE "exit"

\* Workers of a pool that hold a thread.
Running == {p \in Paths : wpc[p] \in {"resolve", "create", "put", "fetch", "open", "write"}}

\* Work items submitted and not finished.
Unfinished == {p \in Paths : wpc[p] \notin {"none", "ok", "err"}}

Note(field, v) == [cur EXCEPT ![field] = v]

(***************************************************************************)
(* _load_metadata, called by __init__.                                     *)
(***************************************************************************)
\* json.load raises json.JSONDecodeError on text it cannot parse: the handler
\* returns the empty Ledger.  Whatever json.load returns is returned as it
\* is: the Ledger an earlier run wrote, or a value of another shape, which
\* has no 'files' mapping.
load_metadata(file) ==
    IF file.state = "truncated"
      THEN [shape |-> "ledger", files |-> EmptyDict]
      ELSE IF file.state = "complete"
             THEN [shape |-> "ledger", files |-> file.doc]
             ELSE [shape |-> "other", files |-> EmptyDict]

LoadMetadata ==
    /\ pc = "load"
    /\ loaded' = load_metadata(metadataFile).shape
    /\ metadata' = load_metadata(metadataFile).files
    /\ cur' = [cur EXCEPT !.ledger0 = metadata']
    /\ pc' = "idle"
    /\ UNCHANGED <<localFiles, driveFolders, driveFiles, metadataFile, mode,
                   wpc,
                   wvar, files_to_upload, files_to_download, drive_files,
                   subfolders, uploaded, downloaded, clock, rclock, cycle,
                   failures, interrupts, hist, edits, executor, scanTree>>

(***************************************************************************)
(* sync(): entry of a cycle.                                               *)
(***************************************************************************)
StartSync ==
    /\ pc = "idle"
    /\ cycle < MaxCycles
    /\ cycle' = cycle + 1
    /\ cur' = NewCycle(cycle + 1)
    /\ hist' = IF cycle = 0 THEN hist ELSE Append(hist, cur)
    /\ pc' = "sync_up"
    /\ UNCHANGED <<localFiles, driveFolders, driveFiles, metadata, metadataFile,
                   mode, wpc, wvar, files_to_upload, files_to_download,
                   drive_files, subfolders, uploaded, downloaded, clock, rclock,
                   failures, interrupts, loaded, edits, executor, scanTree>>

(***************************************************************************)
(* sync_up: the local scan and the upload-direction rule.                  *)
(***************************************************************************)
\* _scan_local_files
scan_local_files == DOMAIN localFiles

\* A variant of the upload-direction rule that also uploads a file whose
\* mtime equals the recorded one.
NeedsUpload_NotStrict(p) ==
    \/ p \notin DOMAIN metadata
    \/ localFiles[p].mtime >= metadata[p].mtime

\* The upload-direction rule (lines 337-347).
NeedsUpload(p) ==
    \/ p \notin DOMAIN metadata
    \/ localFiles[p].mtime > metadata[p].mtime

ToUpload == {p \in scan_local_files : NeedsUpload(p)}

SyncUp ==
    /\ pc = "sync_up"
    /\ loaded = "ledger" \/ scan_local_files = {}
    /\ files_to_upload' = ToUpload
    /\ IF ToUpload = {}
         THEN /\ pc' = "sync_down"
              /\ cur' = Note("upDone", TRUE)
              /\ UNCHANGED <<wpc, uploaded>>
         ELSE /\ pc' = "up_pool"
              /\ wpc' = [p \in Paths |-> IF p \in ToUpload THEN "up_queued" ELSE "none"]
              /\ uploaded' = 0
              /\ cur' = Note("up", ToUpload)
    /\ UNCHANGED <<localFiles, driveFolders, driveFiles, metadata, metadataFile,
                   mode, wvar, files_to_download, drive_files, subfolders,
                   downloaded, clock, rclock, cycle, failures, interrupts,
                   hist, loaded, edits, executor, scanTree>>

\* self.metadata['files'] raises when the loaded value has no 'files' mapping;
\* the expression is evaluated for the first local file.  The exception
\* leaves sync_up and is caught by sync().
SyncUpNoLedger ==
    /\ pc = "sync_up"
    /\ loaded = "other"
    /\ scan_local_files # {}
    /\ cur' = Note("aborted", TRUE)
    /\ pc' = AfterSync
    /\ UNCHANGED <<localFiles, driveFolders, driveFiles, metadata, metadataFile,
                   mode, wpc, wvar, files_to_upload, files_to_download,
                   drive_files, subfolders, uploaded, downloaded, clock, rclock,
                   cycle, failures, interrupts, hist, loaded, edits, executor,
                   scanTree>>

\* An exception of the local scan (os.walk, os.path.getmtime) leaves sync_up
\* and is caught by sync().
ScanLocalFail ==
    /\ pc = "sync_up"
    /\ failures < MaxFailures
    /\ failures' = failures + 1
    /\ cur' = Note("aborted", TRUE)
    /\ pc' = AfterSync
    /\ UNCHANGED <<localFiles, driveFolders, driveFiles, metadata, metadataFile,
                   mode, wpc, wvar, files_to_upload, files_to_download,
                   drive_files, subfolders, uploaded, downloaded, clock, rclock,
                   cycle, interrupts, hist, loaded, edits, executor, scanTree>>

(***************************************************************************)
(* _upload_file, run by a worker of sync_up's pool.                        *)
(***************************************************************************)
\* A thread of the pool takes the work item and reads the file's mtime.
UploadStart(p) ==
    /\ wpc[p] = "up_queued"
    /\ Cardinality(Running) < MAX_WORKERS
    /\ wpc' = [wpc EXCEPT ![p] = "resolve"]
    /\ wvar' = [wvar EXCEPT ![p].mtime = localFiles[p].mtime]
    /\ cur' = Note("triedUp", cur.triedUp \cup {p})
    /\ UNCHANGED <<localFiles, driveFolders, driveFiles, metadata, metadataFile,
                   mode, pc, files_to_upload, files_to_download, drive_files,
                   subfolders, uploaded, downloaded, clock, rclock, cycle,
                   failures, interrupts, hist, loaded, edits, executor,
                   scanTree>>

\* _get_or_create_drive_folder_path: the lookup of folder "d" under the root.
\* files[0] is whichever folder the listing returns first.
ResolveList(p) ==
    /\ wpc[p] = "resolve"
    /\ IF driveFolders # {}
         THEN \E f \in driveFolders :
                /\ wvar' = [wvar EXCEPT ![p].parent = f]
                /\ wpc' = [wpc EXCEPT ![p] = "put"]
         ELSE /\ wpc' = [wpc EXCEPT ![p] = "create"]
              /\ UNCHANGED wvar
    /\ UNCHANGED <<localFiles, driveFolders, driveFiles, metadata, metadataFile,
                   mode, pc, files_to_upload, files_to_download, drive_files,
                   subfolders, uploaded, downloaded, clock, rclock, cycle,
                   failures, interrupts, cur, hist, loaded, edits, executor,
                   scanTree>>

\* _get_or_create_drive_folder_path: the lookup found nothing, the folder is
\* created.
NewFolderId == CHOOSE f \in FolderIds \ driveFolders :
                   \A g \in FolderIds \ driveFolders : f <= g

ResolveCreate(p) ==
    /\ wpc[p] = "create"
    /\ driveFolders' = driveFolders \cup {NewFolderId}
    /\ wvar' = [wvar EXCEPT ![p].parent = NewFolderId]
    /\ wpc' = [wpc EXCEPT ![p] = "put"]
    /\ UNCHANGED <<localFiles, driveFiles, metadata, metadataFile, mode, pc,
                   files_to_upload, files_to_download, drive_files, subfolders,
                   uploaded, downloaded, clock, rclock, cycle, failures,
                   interrupts, cur, hist, loaded, edits, executor, scanTree>>

\* A variant of _upload_file's record that drops the modifiedTime of the
\* response.
UploadRecord_NoDriveMtime(p, id) ==
    [mtime |-> wvar[p].mtime, drive_id |-> id, drive_mtime |-> 0]

\* The Ledger record _upload_file writes (lines 220-225).
UploadRecord(p, id) ==
    [mtime |-> wvar[p].mtime, drive_id |-> id, drive_mtime |-> rclock]

\* _upload_file: the lookup of the file under its parent, the update of the
\* object found or the creation of a new one, and the Ledger record.
UploadPut(p) ==
    /\ wpc[p] = "put"
    /\ LET id == <<wvar[p].parent, NameOf(p)>> IN
         /\ driveFiles' = Put(driveFiles, id,
                              [mtime |-> rclock, content |-> localFiles[p].content])
         /\ metadata' = Put(metadata, p, UploadRecord(p, id))
         /\ cur' = IF id \in DOMAIN driveFiles THEN cur
                   ELSE Note("created", cur.created \cup {id})
    /\ rclock' = rclock + 1
    /\ wpc' = [wpc EXCEPT ![p] = "ok"]
    /\ UNCHANGED <<localFiles, driveFolders, metadataFile, mode, pc, wvar,
                   files_to_upload, files_to_download, drive_files, subfolders,
                   uploaded, downloaded, clock, cycle, failures, interrupts,
                   hist, loaded, edits, executor, scanTree>>

\* Any remote call of _upload_file raises: caught and printed (line 227).
UploadFail(p) ==
    /\ wpc[p] \in {"resolve", "create", "put"}
    /\ failures < MaxFailures
    /\ failures' = failures + 1
    /\ wpc' = [wpc EXCEPT ![p] = "err"]
    /\ cur' = Note("failedUp", cur.failedUp \cup {p})
    /\ UNCHANGED <<localFiles, driveFolders, driveFiles, metadata, metadataFile,
                   mode, pc, wvar, files_to_upload, files_to_download,
                   drive_files, subfolders, uploaded, downloaded, clock, rclock,
                   cycle, interrupts, hist, loaded, edits, executor, scanTree>>

\* A variant in which sync_up returns while futures of its pool are still
\* running.
UpPoolJoin_NoWait ==
    /\ pc = "up_pool"
    /\ uploaded' = Cardinality(files_to_upload)
    /\ cur' = Note("upDone", TRUE)
    /\ pc' = "sync_down"
    /\ UNCHANGED <<localFiles, driveFolders, driveFiles, metadata, metadataFile,
                   mode, wpc, wvar, files_to_upload, files_to_download,
                   drive_files, subfolders, downloaded, clock, rclock, cycle,
                   failures, interrupts, hist, loaded, edits, executor,
                   scanTree>>

\* The with-block of sync_up ends: every future has completed, and each one
\* has been counted, for _upload_file never raises.
UpPoolJoin ==
    /\ pc = "up_pool"
    /\ Unfinished = {}
    /\ uploaded' = Cardinality(files_to_upload)
    /\ wpc' = [p \in Paths |-> "none"]
    /\ wvar' = [p \in Paths |-> NoVar]
    /\ cur' = Note("upDone", TRUE)
    /\ pc' = "sync_down"
    /\ UNCHANGED <<localFiles, driveFolders, driveFiles, metadata, metadataFile,
                   mode, files_to_upload, files_to_download, drive_files,
                   subfolders, downloaded, clock, rclock, cycle, failures,
                   interrupts, hist, loaded, edits, executor, scanTree>>

(***************************************************************************)
(* sync_down: _scan_drive_files, then the download-direction rule.         *)
(***************************************************************************)
\* _scan_drive_files of the root: the listing of the root returns the
\* folders "d"; each is handed to a worker of the scan's pool.
ListRoot ==
    /\ pc = "sync_down"
    /\ subfolders' = driveFolders
    /\ drive_files' = EmptyDict
    /\ pc' = IF driveFolders = {} THEN "detect" ELSE "scan_pool"
    /\ UNCHANGED <<localFiles, driveFolders, driveFiles, metadata, metadataFile,
                   mode, wpc, wvar, files_to_upload, files_to_download,
                   uploaded, downloaded, clock, rclock, cycle, failures,
                   interrupts, cur, hist, loaded, edits, executor, scanTree>>

\* The listing of the root raises: the exception leaves _scan_drive_files and
\* sync_down, and is caught by sync().
ListRootFail ==
    /\ pc = "sync_down"
    /\ failures < MaxFailures
    /\ failures' = failures + 1
    /\ cur' = Note("aborted", TRUE)
    /\ pc' = AfterSync
    /\ UNCHANGED <<localFiles, driveFolders, driveFiles, metadata, metadataFile,
                   mode, wpc, wvar, files_to_upload, files_to_download,
                   drive_files, subfolders, uploaded, downloaded, clock, rclock,
                   cycle, interrupts, hist, loaded, edits, executor, scanTree>>

\* The files the listing of folder f returns, keyed by relative path.
Listing(f) ==
    [p \in {PathOf(i[2]) : i \in {j \in DOMAIN driveFiles : j[1] = f}} |->
        [id |-> <<f, NameOf(p)>>, mtime |-> driveFiles[<<f, NameOf(p)>>].mtime]]

\* dict.update
Update(d, e) ==
    [x \in (DOMAIN d) \cup (DOMAIN e) |-> IF x \in DOMAIN e THEN e[x] ELSE d[x]]

\* The scan of subfolder f completes and its files are merged into the
\* result (lines 322-325), in the order the scans complete.
ScanSub(f) ==
    /\ pc = "scan_pool"
    /\ f \in subfolders
    /\ drive_files' = Update(drive_files, Listing(f))
    /\ subfolders' = subfolders \ {f}
    /\ pc' = IF subfolders' = {} THEN "detect" ELSE "scan_pool"
    /\ UNCHANGED <<localFiles, driveFolders, driveFiles, metadata, metadataFile,
                   mode, wpc, wvar, files_to_upload, files_to_download,
                   uploaded, downloaded, clock, rclock, cycle, failures,
                   interrupts, cur, hist, loaded, edits, executor, scanTree>>

\* A variant of the scan in which the exception of a subfolder's scan is not
\* caught: it leaves _scan_drive_files and reaches sync()'s handler.
ScanSubFail_Propagates(f) ==
    /\ pc = "scan_pool"
    /\ f \in subfolders
    /\ failures < MaxFailures
    /\ failures' = failures + 1
    /\ subfolders' = {}
    /\ cur' = [cur EXCEPT !.scanFailed = TRUE, !.aborted = TRUE]
    /\ pc' = AfterSync
    /\ UNCHANGED <<localFiles, driveFolders, driveFiles, metadata, metadataFile,
                   mode, wpc, wvar, files_to_upload, files_to_download,
                   drive_files, uploaded, downloaded, clock, rclock, cycle,
                   interrupts, hist, loaded, edits, executor, scanTree>>

\* The scan of subfolder f raises: caught and printed (lines 326-327), the
\* files of f are missing from the result.
ScanSubFail(f) ==
    /\ pc = "scan_pool"
    /\ f \in subfolders
    /\ failures < MaxFailures
    /\ failures' = failures + 1
    /\ subfolders' = subfolders \ {f}
    /\ cur' = Note("scanFailed", TRUE)
    /\ pc' = IF subfolders' = {} THEN "detect" ELSE "scan_pool"
    /\ UNCHANGED <<localFiles, driveFolders, driveFiles, metadata, metadataFile,
                   mode, wpc, wvar, files_to_upload, files_to_download,
                   drive_files, uploaded, downloaded, clock, rclock, cycle,
                   interrupts, hist, loaded, edits, executor, scanTree>>

\* A variant of the download-direction rule that does not compare the local
\* mtime with the recorded one.
NeedsDownload_IgnoresLocalChange(p) ==
    \/ p \notin DOMAIN localFiles
    \/ /\ p \in DOMAIN metadata
       /\ drive_files[p].mtime # metadata[p].drive_mtime

\* The download-direction rule (lines 373-392).
NeedsDownload(p) ==
    \/ p \notin DOMAIN localFiles
    \/ /\ p \in DOMAIN metadata
       /\ drive_files[p].mtime # metadata[p].drive_mtime
       /\ localFiles[p].mtime = metadata[p].mtime

\* The paths for which "Conflict detected" is printed (line 392).
IsConflict(p) ==
    /\ p \in DOMAIN localFiles
    /\ p \in DOMAIN metadata
    /\ drive_files[p].mtime # metadata[p].drive_mtime
    /\ localFiles[p].mtime # metadata[p].mtime

ToDownload == {p \in DOMAIN drive_files : NeedsDownload(p)}

Conflicts == {p \in DOMAIN drive_files : IsConflict(p)}

Detect ==
    /\ pc = "detect"
    /\ loaded = "ledger" \/ DOMAIN drive_files \cap DOMAIN localFiles = {}
    /\ files_to_download' = [p \in ToDownload |-> drive_files[p]]
    /\ IF ToDownload = {}
         THEN /\ pc' = "save"
              /\ cur' = [cur EXCEPT !.conflicts = Conflicts, !.downDone = TRUE]
              /\ UNCHANGED <<wpc, downloaded>>
         ELSE /\ pc' = "down_pool"
              /\ wpc' = [p \in Paths |-> IF p \in ToDownload THEN "down_queued" ELSE "none"]
              /\ downloaded' = 0
              /\ cur' = [cur EXCEPT !.conflicts = Conflicts, !.down = ToDownload]
    /\ UNCHANGED <<localFiles, driveFolders, driveFiles, metadata, metadataFile,
                   mode, wvar, files_to_upload, drive_files, subfolders,
                   uploaded, clock, rclock, cycle, failures, interrupts, hist,
                   loaded, edits, executor, scanTree>>

(***************************************************************************)
(* _download_file, run by a worker of sync_down's pool.                    *)
(***************************************************************************)
DownloadStart(p) ==
    /\ wpc[p] = "down_queued"
    /\ Cardinality(Running) < MAX_WORKERS
    /\ wpc' = [wpc EXCEPT ![p] = "fetch"]
    /\ cur' = Note("triedDown", cur.triedDown \cup {p})
    /\ UNCHANGED <<localFiles, driveFolders, driveFiles, metadata, metadataFile,
                   mode, pc, wvar, files_to_upload, files_to_download,
                   drive_files, subfolders, uploaded, downloaded, clock, rclock,
                   cycle, failures, interrupts, hist, loaded, edits, executor,
                   scanTree>>

\* get_media and the chunk loop: the whole content is read into memory (fh).
DownloadFetch(p) ==
    /\ wpc[p] = "fetch"
    /\ wvar' = [wvar EXCEPT ![p].fh = driveFiles[files_to_download[p].id].content]
    /\ wpc' = [wpc EXCEPT ![p] = "open"]
    /\ UNCHANGED <<localFiles, driveFolders, driveFiles, metadata, metadataFile,
                   mode, pc, files_to_upload, files_to_download, drive_files,
                   subfolders, uploaded, downloaded, clock, rclock, cycle,
                   failures, interrupts, cur, hist, loaded, edits, executor,
                   scanTree>>

\* open(local_path, 'wb'): the file is created or truncated in place.
DownloadOpen(p) ==
    /\ wpc[p] = "open"
    /\ localFiles' = Put(localFiles, p, [mtime |-> clock, content |-> "truncated"])
    /\ clock' = clock + 1
    /\ wpc' = [wpc EXCEPT ![p] = "write"]
    /\ UNCHANGED <<driveFolders, driveFiles, metadata, metadataFile, mode, pc,
                   wvar, files_to_upload, files_to_download, drive_files,
                   subfolders, uploaded, downloaded, rclock, cycle, failures,
                   interrupts, cur, hist, loaded, edits, executor, scanTree>>

\* A variant of _download_file's record that takes the mtime from before
\* the write.
DownloadRecord_StaleMtime(p, mtime) ==
    [mtime |-> mtime - 1, drive_id |-> files_to_download[p].id,
     drive_mtime |-> files_to_download[p].mtime]

\* The Ledger record _download_file writes (lines 254-260): the mtime read
\* back after the write, the id and the modifiedTime the scan passed.
DownloadRecord(p, mtime) ==
    [mtime |-> mtime, drive_id |-> files_to_download[p].id,
     drive_mtime |-> files_to_download[p].mtime]

\* f.write(fh.getvalue()), the close, and the Ledger record.  When the loaded
\* value has no 'files' mapping the assignment to self.metadata['files'] raises
\* after the file was written: caught and printed (line 262).
DownloadWrite(p) ==
    /\ wpc[p] = "write"
    /\ localFiles' = Put(localFiles, p, [mtime |-> clock, content |-> wvar[p].fh])
    /\ clock' = clock + 1
    /\ IF loaded = "ledger"
         THEN /\ metadata' = Put(metadata, p, DownloadRecord(p, clock))
              /\ wpc' = [wpc EXCEPT ![p] = "ok"]
              /\ UNCHANGED cur
         ELSE /\ wpc' = [wpc EXCEPT ![p] = "err"]
              /\ cur' = Note("failedDown", cur.failedDown \cup {p})
              /\ UNCHANGED metadata
    /\ UNCHANGED <<driveFolders, driveFiles, metadataFile, mode, pc, wvar,
                   files_to_upload, files_to_download, drive_files, subfolders,
                   uploaded, downloaded, rclock, cycle, failures, interrupts,
                   hist, loaded, edits, executor, scanTree>>

\* A variant of the handler of _download_file that removes the local file it
\* could not complete.
DownloadFail_RemovesFile(p) ==
    /\ wpc[p] \in {"fetch", "open", "write"}
    /\ failures < MaxFailures
    /\ failures' = failures + 1
    /\ wpc' = [wpc EXCEPT ![p] = "err"]
    /\ cur' = Note("failedDown", cur.failedDown \cup {p})
    /\ localFiles' = [q \in DOMAIN localFiles \ {p} |-> localFiles[q]]
    /\ UNCHANGED <<driveFolders, driveFiles, metadata, metadataFile,
                   mode, pc, wvar, files_to_upload, files_to_download,
                   drive_files, subfolders, uploaded, downloaded, clock, rclock,
                   cycle, interrupts, hist, loaded, edits, executor, scanTree>>

\* A call of _download_file raises (get_media, makedirs, open, write): caught
\* and printed (line 262).  What was written to the local file stays.
DownloadFail(p) ==
    /\ wpc[p] \in {"fetch", "open", "write"}
    /\ failures < MaxFailures
    /\ failures' = failures + 1
    /\ wpc' = [wpc EXCEPT ![p] = "err"]
    /\ cur' = Note("failedDown", cur.failedDown \cup {p})
    /\ UNCHANGED <<localFiles, driveFolders, driveFiles, metadata, metadataFile,
                   mode, pc, wvar, files_to_upload, files_to_download,
                   drive_files, subfolders, uploaded, downloaded, clock, rclock,
                   cycle, interrupts, hist, loaded, edits, executor, scanTree>>

DownPoolJoin ==
    /\ pc = "down_pool"
    /\ Unfinished = {}
    /\ downloaded' = Cardinality(DOMAIN files_to_download)
    /\ wpc' = [p \in Paths |-> "none"]
    /\ wvar' = [p \in Paths |-> NoVar]
    /\ cur' = Note("downDone", TRUE)
    /\ pc' = "save"
    /\ UNCHANGED <<localFiles, driveFolders, driveFiles, metadata, metadataFile,
                   mode, files_to_upload, files_to_download, drive_files,
                   subfolders, uploaded, clock, rclock, cycle, failures,
                   interrupts, hist, loaded, edits, executor, scanTree>>

(***************************************************************************)
(* _save_metadata: open(METADATA_FILE, 'w') truncates the document, then   *)
(* json.dump writes the Ledger into it.  It is called at the end of sync() *)
(* and by run()'s KeyboardInterrupt handler.                               *)
(***************************************************************************)
SaveOpen ==
    /\ pc \in {"save", "int_save"}
    /\ metadataFile' = [state |-> "truncated", doc |-> EmptyDict]
    /\ pc' = IF pc = "save" THEN "save_write" ELSE "int_save_write"
    /\ UNCHANGED <<localFiles, driveFolders, driveFiles, metadata, mode, wpc,
                   wvar, files_to_upload, files_to_download, drive_files,
                   subfolders, uploaded, downloaded, clock, rclock, cycle,
                   failures, interrupts, cur, hist, loaded, edits, executor,
                   scanTree>>

\* The document json.dump leaves when it returns: self.metadata as it is.
Dumped == [state |-> IF loaded = "ledger" THEN "complete" ELSE "wrong_shape",
           doc |-> metadata]

SaveWrite ==
    /\ pc \in {"save_write", "int_save_write"}
    /\ metadataFile' = Dumped
    /\ pc' = IF pc = "save_write" THEN AfterSync ELSE "exit"
    /\ cur' = IF pc = "save_write" THEN Note("saved", TRUE) ELSE cur
    /\ UNCHANGED <<localFiles, driveFolders, driveFiles, metadata, mode, wpc,
                   wvar, files_to_upload, files_to_download, drive_files,
                   subfolders, uploaded, downloaded, clock, rclock, cycle,
                   failures, interrupts, hist, loaded, edits, executor,
                   scanTree>>

\* open or json.dump raises (disk full, permissions): inside sync() the
\* exception is caught by sync(); inside run()'s handler it leaves run() and
\* main() returns 1.  What was written to the document stays.
SaveFail ==
    /\ pc \in {"save", "save_write", "int_save", "int_save_write"}
    /\ failures < MaxFailures
    /\ failures' = failures + 1
    /\ pc' = IF pc \in {"save", "save_write"} THEN AfterSync ELSE "exit"
    /\ cur' = IF pc \in {"save", "save_write"} THEN Note("saveFailed", TRUE) ELSE cur
    /\ UNCHANGED <<localFiles, driveFolders, driveFiles, metadata, metadataFile,
                   mode, wpc, wvar, files_to_upload, files_to_download,
                   drive_files, subfolders, uploaded, downloaded, clock, rclock,
                   cycle, interrupts, hist, loaded, edits, executor, scanTree>>

(***************************************************************************)
(* run(): the loop, and the KeyboardInterrupt.                             *)
(***************************************************************************)
\* time.sleep(self.sync_interval) returns.
Wake ==
    /\ pc = "sleep"
    /\ pc' = "idle"
    /\ UNCHANGED <<localFiles, driveFolders, driveFiles, metadata, metadataFile,
                   mode, wpc, wvar, files_to_upload, files_to_download,
                   drive_files, subfolders, uploaded, downloaded, clock, rclock,
                   cycle, failures, interrupts, cur, hist, loaded, edits,
                   executor, scanTree>>

\* The user edits a local file while the loop sleeps: new content, and the
\* modification time os.path.getmtime will return.
UserEdit(p) ==
    /\ pc = "sleep"
    /\ edits < MaxEdits
    /\ p \in DOMAIN localFiles
    /\ edits' = edits + 1
    /\ localFiles' = Put(localFiles, p, [mtime |-> clock, content |-> "l1"])
    /\ clock' = clock + 1
    /\ cur' = Note("editedAfter", cur.editedAfter \cup {p})
    /\ UNCHANGED <<driveFolders, driveFiles, metadata, metadataFile, mode, pc,
                   wpc, wvar, files_to_upload, files_to_download, drive_files,
                   subfolders, uploaded, downloaded, rclock, cycle, failures,
                   interrupts, hist, loaded, executor, scanTree>>

\* Where a KeyboardInterrupt ends up: sync() catches Exception only, so it
\* reaches run()'s handler, which saves the Ledger; in single-shot mode main()
\* called sync() directly and its own handler returns 0.
Handler == IF mode = "loop" THEN "int_save" ELSE "exit"

\* Ctrl+C: KeyboardInterrupt is raised in the main thread.  Inside a
\* with-block of a pool, the executor's shutdown(wait=True) first waits for
\* every submitted future.
Interrupt ==
    /\ interrupts = 0
    /\ pc \notin {"exit", "load"}
    /\ interrupts' = 1
    /\ pc' = IF pc \in {"up_pool", "down_pool", "scan_pool"}
               THEN "int_wait" ELSE Handler
    /\ subfolders' = {}
    /\ UNCHANGED <<localFiles, driveFolders, driveFiles, metadata, metadataFile,
                   mode, wpc, wvar, files_to_upload, files_to_download,
                   drive_files, uploaded, downloaded, clock, rclock, cycle,
                   failures, cur, hist, loaded, edits, executor, scanTree>>

\* The pool's shutdown returns and the KeyboardInterrupt goes on.
InterruptJoin ==
    /\ pc = "int_wait"
    /\ Unfinished = {}
    /\ wpc' = [p \in Paths |-> "none"]
    /\ wvar' = [p \in Paths |-> NoVar]
    /\ pc' = Handler
    /\ UNCHANGED <<localFiles, driveFolders, driveFiles, metadata, metadataFile,
                   mode, files_to_upload, files_to_download, drive_files,
                   subfolders, uploaded, downloaded, clock, rclock, cycle,
                   failures, interrupts, cur, hist, loaded, edits, executor,
                   scanTree>>

Next ==
    \/ LoadMetadata
    \/ StartSync
    \/ SyncUp
    \/ SyncUpNoLedger
    \/ ScanLocalFail
    \/ \E p \in Paths : UploadStart(p)
    \/ \E p \in Paths : ResolveList(p)
    \/ \E p \in Paths : ResolveCreate(p)
    \/ \E p \in Paths : UploadPut(p)
    \/ \E p \in Paths : UploadFail(p)
    \/ UpPoolJoin
    \/ ListRoot
    \/ ListRootFail
    \/ \E f \in FolderIds : ScanSub(f)
    \/ \E f \in FolderIds : ScanSubFail(f)
    \/ Detect
    \/ \E p \in Paths : DownloadStart(p)
    \/ \E p \in Paths : DownloadFetch(p)
    \/ \E p \in Paths : DownloadOpen(p)
    \/ \E p \in Paths : DownloadWrite(p)
    \/ \E p \in Paths : DownloadFail(p)
    \/ DownPoolJoin
    \/ SaveOpen
    \/ SaveWrite
    \/ SaveFail
    \/ Wake
    \/ \E p \in Paths : UserEdit(p)
    \/ Interrupt
    \/ InterruptJoin

Spec == Init /\ [][Next]_vars

(***************************************************************************)
(* The thread pools under load.  PoolSpec follows one cycle whose phases   *)
(* have more work than a pool has threads: up to MaxItems uploads, the     *)
(* scan of a remote tree with ScanFan1 folders of ScanFan2 subfolders      *)
(* each, up to MaxItems downloads.  Work items are counted, not named.     *)
(***************************************************************************)
\* Threads of the pool of the root's scan that are occupied: each runs
\* _scan_drive_files of a folder, which lists the folder and then waits for
\* its own pool.
BusyFolders == {i \in Folders1 : scanTree.folder[i] \in {"listing", "waiting"}}

\* with ThreadPoolExecutor(max_workers=MAX_WORKERS): the work list of the
\* phase is submitted to a new pool.
Submit ==
    /\ executor.pc \in {"idle", "scanned"}
    /\ \E n \in 1..MaxItems :
         executor' = [pc |-> IF executor.pc = "idle" THEN "up_pool" ELSE "down_pool",
                      items |-> n, queued |-> n, running |-> 0, ok |-> 0,
                      err |-> 0, writes |-> 0]
    /\ UNCHANGED <<syncVars, scanTree>>

\* A variant of the pool without a limit on its threads.
TransferStart_NoLimit ==
    /\ executor.pc \in {"up_pool", "down_pool"}
    /\ executor.queued > 0
    /\ executor' = [executor EXCEPT !.queued = @ - 1, !.running = @ + 1]
    /\ UNCHANGED <<syncVars, scanTree>>

\* A thread of the pool takes a work item: the pool has at most MAX_WORKERS
\* threads, each running one _upload_file or _download_file at a time.
TransferStart ==
    /\ executor.pc \in {"up_pool", "down_pool"}
    /\ executor.queued > 0
    /\ executor.running < MAX_WORKERS
    /\ executor' = [executor EXCEPT !.queued = @ - 1, !.running = @ + 1]
    /\ UNCHANGED <<syncVars, scanTree>>

\* The transfer succeeds: one assignment to self.metadata['files'][rel_path]
\* under the lock, then the worker returns True.
TransferOk ==
    /\ executor.running > 0
    /\ executor' = [executor EXCEPT !.running = @ - 1, !.ok = @ + 1,
                                    !.writes = @ + 1]
    /\ UNCHANGED <<syncVars, scanTree>>

\* The transfer raises before the Ledger assignment: caught, the worker
\* returns False.
TransferErr ==
    /\ executor.running > 0
    /\ executor' = [executor EXCEPT !.running = @ - 1, !.err = @ + 1]
    /\ UNCHANGED <<syncVars, scanTree>>

\* The with-block of the phase ends, and the pool with it.
Join ==
    /\ executor.pc \in {"up_pool", "down_pool"}
    /\ executor.queued = 0
    /\ executor.running = 0
    /\ executor' = [IdleExecutor EXCEPT
                      !.pc = IF executor.pc = "up_pool" THEN "scan" ELSE "end"]
    /\ UNCHANGED <<syncVars, scanTree>>

\* _scan_drive_files of the root: the listing finds the folders, and each is
\* submitted to the root's pool.
ScanRoot ==
    /\ executor.pc = "scan"
    /\ executor' = [executor EXCEPT !.pc = "scan_pool"]
    /\ scanTree' = [scanTree EXCEPT !.folder = [i \in Folders1 |-> "queued"]]
    /\ UNCHANGED syncVars

\* A thread of the root's pool starts _scan_drive_files of folder i: the
\* listing of the folder.
ScanFolderStart(i) ==
    /\ scanTree.folder[i] = "queued"
    /\ Cardinality(BusyFolders) < MAX_WORKERS
    /\ scanTree' = [scanTree EXCEPT !.folder[i] = "listing"]
    /\ UNCHANGED <<syncVars, executor>>

\* The listing of folder i found its subfolders: the call opens a pool of its
\* own (line 317), submits every subfolder and waits.
ScanFolderListed(i) ==
    /\ scanTree.folder[i] = "listing"
    /\ scanTree' = [scanTree EXCEPT !.folder[i] = "waiting",
                                    !.queued[i] = ScanFan2]
    /\ UNCHANGED <<syncVars, executor>>

\* A thread of the pool of folder i starts _scan_drive_files of a subfolder:
\* its listing.  The pool of folder i has at most MAX_WORKERS threads.
ScanLeafStart(i) ==
    /\ scanTree.queued[i] > 0
    /\ scanTree.listing[i] < MAX_WORKERS
    /\ scanTree' = [scanTree EXCEPT !.queued[i] = @ - 1, !.listing[i] = @ + 1]
    /\ UNCHANGED <<syncVars, executor>>

\* The listing of a subfolder of folder i returns (or raises); it has no
\* subfolders, so the call ends.
ScanLeafDone(i) ==
    /\ scanTree.listing[i] > 0
    /\ scanTree' = [scanTree EXCEPT !.listing[i] = @ - 1, !.done[i] = @ + 1]
    /\ UNCHANGED <<syncVars, executor>>

\* The with-block of the scan of folder i ends.
ScanFolderDone(i) ==
    /\ scanTree.folder[i] = "waiting"
    /\ scanTree.queued[i] = 0
    /\ scanTree.listing[i] = 0
    /\ scanTree' = [scanTree EXCEPT !.folder[i] = "done"]
    /\ UNCHANGED <<syncVars, executor>>

\* The with-block of the root's scan ends; sync_down goes on to its rule.
ScanJoin ==
    /\ executor.pc = "scan_pool"
    /\ \A i \in Folders1 : scanTree.folder[i] = "done"
    /\ executor' = [executor EXCEPT !.pc = "scanned"]
    /\ scanTree' = IdleScan
    /\ UNCHANGED syncVars

PoolInit ==
    /\ Init
    /\ localFiles = EmptyDict
    /\ driveFiles = EmptyDict
    /\ driveFolders = {}
    /\ metadataFile = [state |-> "complete", doc |-> EmptyDict]
    /\ mode = "once"

PoolNext ==
    \/ Submit
    \/ TransferStart
    \/ TransferOk
    \/ TransferErr
    \/ Join
    \/ ScanRoot
    \/ \E i \in Folders1 : ScanFolderStart(i)
    \/ \E i \in Folders1 : ScanFolderListed(i)
    \/ \E i \in Folders1 : ScanLeafStart(i)
    \/ \E i \in Folders1 : ScanLeafDone(i)
    \/ \E i \in Folders1 : ScanFolderDone(i)
    \/ ScanJoin

PoolSpec == PoolInit /\ [][PoolNext]_vars

(***************************************************************************)
(* Properties.                                                             *)
(***************************************************************************)
\* The records of all cycles so far, the one in progress last.
Cycles == Append(hist, cur)

\* The cycles (by index in Cycles) that scheduled path p for upload, for
\* download.
UploadCycles(p) == {k \in 1..Len(Cycles) : p \in Cycles[k].up}
DownloadCycles(p) == {k \in 1..Len(Cycles) : p \in Cycles[k].down}

\* Path p at the start of cycle c: present locally, remotely and in the
\* Ledger, its local mtime and its remote modifiedTime both different from
\* the ones the Ledger records.
ChangedOnBothSides(c, p) ==
    /\ p \in DOMAIN c.local0
    /\ p \in DOMAIN c.ledger0
    /\ ObjectsAt(c.drive0, p) # {}
    /\ c.local0[p].mtime # c.ledger0[p].mtime
    /\ \A i \in ObjectsAt(c.drive0, p) : c.drive0[i].mtime # c.ledger0[p].drive_mtime

\* C1 (conflict safety over a full cycle): when sync_up and sync_down of a
\* cycle have both run, without any failure or interrupt, every path that was
\* changed on both sides at the start of the cycle still has its local
\* content, was reported as a conflict, and has the Ledger entry it had at
\* the start of the cycle.
C1_ConflictSafety ==
    \A p \in Paths :
        (/\ cur.downDone
         /\ failures = 0
         /\ interrupts = 0
         /\ ChangedOnBothSides(cur, p))
        => /\ p \in DOMAIN localFiles
           /\ localFiles[p].content = cur.local0[p].content
           /\ p \in cur.conflicts
           /\ p \in DOMAIN metadata
           /\ metadata[p] = cur.ledger0[p]

\* The case of C1 in which the code keeps the property: the local file is
\* older than the Ledger's record, sync_up skips it and sync_down reports it.
C1_ReportedConflict ==
    \E p \in Paths :
        /\ cur.downDone
        /\ ChangedOnBothSides(cur, p)
        /\ p \in cur.conflicts
        /\ metadata[p] = cur.ledger0[p]

\* C2 (folder resolution under concurrency): at most one folder "d" exists
\* under the root, whatever the interleaving of the upload workers' lookups
\* and creations.
C2_OneFolderPerPath == Cardinality(driveFolders) <= 1

\* The paths whose Ledger record was written by a transfer of this run.
Transferred ==
    {p \in DOMAIN metadata :
        \/ p \notin DOMAIN Cycles[1].ledger0
        \/ metadata[p] # Cycles[1].ledger0[p]}

\* C4 (cancellation persists the Ledger): once the process has exited after
\* an interrupt, without any failure, the record of every transfer that
\* completed in this run is in the persisted document.
C4_InterruptPersists ==
    (pc = "exit" /\ interrupts = 1 /\ failures = 0)
    => \A p \in Transferred :
            /\ metadataFile.state = "complete"
            /\ p \in DOMAIN metadataFile.doc
            /\ metadataFile.doc[p] = metadata[p]

\* The run mode in which C4 holds: the loop (run()), whose handler saves
\* the record of a transfer that sync() had not saved yet.
C4_LoopModeSaved ==
    /\ pc = "exit"
    /\ interrupts = 1
    /\ mode = "loop"
    /\ Transferred # {}
    /\ ~cur.saved
    /\ metadataFile = [state |-> "complete", doc |-> metadata]

\* C5 (atomic Ledger persistence): the persisted document is at every
\* moment a complete snapshot, never an empty or partially written one.
C5_DocumentComplete == metadataFile.state = "complete"

\* C6 (atomic download finalization): no local file is ever observable
\* truncated or half-written.
C6_NoPartialLocalFile ==
    \A p \in DOMAIN localFiles : localFiles[p].content # "truncated"

\* The Ledger entry of path p is the same in ledgers a and b.
SameEntry(a, b, p) ==
    IF p \in DOMAIN a THEN p \in DOMAIN b /\ a[p] = b[p] ELSE p \notin DOMAIN b

\* The cycle before the one in progress.
Prev == hist[Len(hist)]

\* C7, first part: every path of a work list is attempted, whatever fails.
C7_AllAttempted ==
    /\ cur.upDone => cur.up \subseteq cur.triedUp
    /\ cur.downDone => cur.down \subseteq cur.triedDown

\* C7, second part: the Ledger entry of a path whose transfer failed is the
\* one of the start of the cycle.
C7_LedgerUnchanged ==
    \A p \in cur.failedUp \cup cur.failedDown : SameEntry(metadata, cur.ledger0, p)

\* C7, third part: a path whose transfer failed is not attempted again in
\* the same cycle.
C7_NoRetryInCycle ==
    \A p \in cur.failedUp : p \notin cur.down

\* C7, fourth part: the failed transfer is scheduled again by the next cycle.
C7_RetriedNextCycle ==
    hist # <<>> =>
        /\ \A p \in Prev.failedUp : cur.upDone => p \in cur.up
        /\ \A p \in Prev.failedDown :
               (cur.downDone /\ ~cur.scanFailed) => p \in cur.down

\* C7 (per-item failure isolation): when a transfer fails, the other paths
\* of the work list are still attempted, the failed path's Ledger entry is
\* unchanged, the path is not attempted again in the same cycle, and the
\* next cycle schedules the failed transfer again.
C7_FailureIsolation ==
    /\ C7_AllAttempted
    /\ C7_LedgerUnchanged
    /\ C7_NoRetryInCycle
    /\ C7_RetriedNextCycle

\* The main thread is between two cycles, or has left the program.
BetweenCycles == pc \in {"sleep", "idle", "exit"}

\* C8 as stated (cycle-level failure handling): an exception of the local
\* scan, of the listing of the remote root or of the scan of a subfolder
\* aborts the cycle: no download is started after it and sync() does not
\* write the document.
C8_AnyScanFailureAborts ==
    (cur.aborted \/ cur.scanFailed) => (cur.triedDown = {} /\ ~cur.saved)

\* C8 as amended: an exception of the local scan or of the listing of the
\* remote root aborts the cycle (no transfer is running or started after it,
\* sync() does not write the document), does not leave the loop, and the loop
\* goes on to the sleep before the next cycle; the loop ends only after an
\* interrupt.  An exception of the scan of a subfolder does not abort the
\* cycle: unless something else fails, the cycle goes through its download
\* phase and writes the document.
C8_RootFailureAbortsSubfolderFailureDoesNot ==
    /\ cur.aborted =>
          /\ Unfinished = {}
          /\ cur.triedDown = {}
          /\ ~cur.downDone
          /\ ~cur.saved
          /\ pc \in {"sleep", "idle", "exit", "int_save", "int_save_write"}
          /\ (mode = "loop" /\ interrupts = 0) => pc \in {"sleep", "idle"}
    /\ (mode = "loop" /\ pc = "exit") => interrupts = 1
    /\ (/\ cur.scanFailed
        /\ ~cur.saveFailed
        /\ interrupts = 0
        /\ BetweenCycles)
       => (~cur.aborted /\ cur.downDone /\ cur.saved)

\* The case of C8: an earlier cycle of the loop was aborted after its uploads
\* by an exception of the listing of the remote root, and the loop went on:
\* the cycle in progress ran through both phases and wrote the document.
C8_AbortedThenContinued ==
    /\ hist # <<>>
    /\ loaded = "ledger"
    /\ Prev.aborted
    /\ Prev.triedUp # {}
    /\ cur.downDone
    /\ cur.saved
    /\ pc = "sleep"

\* A cycle in which nothing failed and which ran through both phases.
Clean(c) ==
    /\ c.downDone
    /\ c.failedUp = {}
    /\ c.failedDown = {}
    /\ ~c.scanFailed
    /\ ~c.aborted

\* C3 (idempotence): the cycle that follows a cycle in which nothing failed,
\* with no edit of the user in between, schedules no upload and no download.
C3_SecondRunSchedulesNothing ==
    (hist # <<>> /\ Clean(Prev) /\ Prev.editedAfter = {}) =>
        (cur.up = {} /\ cur.down = {})

\* The case of C3: the first cycle transferred in both directions, and the
\* second cycle has computed both of its work lists.
C3_SecondRunAfterTransfers ==
    /\ hist # <<>>
    /\ Clean(Prev)
    /\ Prev.editedAfter = {}
    /\ Prev.up # {}
    /\ Prev.down # {}
    /\ cur.upDone
    /\ cur.downDone

\* Path p when the program starts: present locally, absent remotely, absent
\* from the Ledger.
NewLocal(p) ==
    /\ p \in DOMAIN Cycles[1].local0
    /\ ObjectsAt(Cycles[1].drive0, p) = {}
    /\ p \notin DOMAIN Cycles[1].ledger0

\* Path p when the program starts: present remotely, absent locally, absent
\* from the Ledger.
NewRemote(p) ==
    /\ ObjectsAt(Cycles[1].drive0, p) # {}
    /\ p \notin DOMAIN Cycles[1].local0
    /\ p \notin DOMAIN Cycles[1].ledger0

\* The remote objects of path p that the cycles so far created.
CreatedAt(p) ==
    {<<k, i>> \in (1..Len(Cycles)) \X FileIds :
        i \in Cycles[k].created /\ i[2] = NameOf(p)}

\* C9 (new-file upload): over the cycles of a run that loaded a Ledger, without
\* failures and without edits of the user, a path
\* that started local-only is scheduled for upload at most once, never for
\* download, and at most one remote object is created for it; once the
\* upload phase of the first cycle is over, it has been uploaded once, one
\* remote object holds its content, and the Ledger records the file's
\* current local mtime and the object's current modifiedTime.
C9_NewFileUploadedOnce ==
    \A p \in Paths :
        (NewLocal(p) /\ loaded = "ledger" /\ failures = 0 /\ edits = 0 /\ cycle >= 1) =>
            /\ Cardinality(UploadCycles(p)) <= 1
            /\ Cardinality(CreatedAt(p)) <= 1
            /\ DownloadCycles(p) = {}
            /\ Cycles[1].upDone =>
                 /\ UploadCycles(p) = {1}
                 /\ Cardinality(CreatedAt(p)) = 1
                 /\ Cardinality(ObjectsAt(driveFiles, p)) = 1
                 /\ p \in DOMAIN metadata
                 /\ metadata[p].mtime = localFiles[p].mtime
                 /\ \A i \in ObjectsAt(driveFiles, p) :
                      /\ metadata[p].drive_id = i
                      /\ metadata[p].drive_mtime = driveFiles[i].mtime
                      /\ driveFiles[i].content = localFiles[p].content

\* The case of C9: a later cycle, after the one that uploaded the new file,
\* has computed both of its work lists.
C9_UploadedThenLeftAlone ==
    \E p \in Paths :
        /\ NewLocal(p)
        /\ loaded = "ledger"
        /\ failures = 0
        /\ edits = 0
        /\ Len(Cycles) >= 2
        /\ UploadCycles(p) = {1}
        /\ cur.upDone
        /\ cur.downDone

\* C10 (new-file download): over the cycles of a run that loaded a Ledger,
\* without failures and without edits of the user, a
\* path that started remote-only is scheduled for download at most once and
\* never for upload; once the download phase of the first cycle is over, it
\* has been downloaded once, the local file holds the content of the remote
\* object, and the Ledger records the file's local mtime after the write and
\* the modifiedTime the scan saw.
C10_NewFileDownloadedOnce ==
    \A p \in Paths :
        (NewRemote(p) /\ loaded = "ledger" /\ failures = 0 /\ edits = 0 /\ cycle >= 1) =>
            /\ Cardinality(DownloadCycles(p)) <= 1
            /\ UploadCycles(p) = {}
            /\ Cycles[1].downDone =>
                 /\ DownloadCycles(p) = {1}
                 /\ p \in DOMAIN localFiles
                 /\ p \in DOMAIN metadata
                 /\ metadata[p].mtime = localFiles[p].mtime
                 /\ \A i \in ObjectsAt(driveFiles, p) :
                      /\ localFiles[p].content = driveFiles[i].content
                      /\ metadata[p].drive_id = i
                      /\ metadata[p].drive_mtime = Cycles[1].drive0[i].mtime
                      /\ driveFiles[i] = Cycles[1].drive0[i]

\* The case of C10: a later cycle, after the one that downloaded the new
\* file, has computed both of its work lists.
C10_DownloadedThenLeftAlone ==
    \E p \in Paths :
        /\ NewRemote(p)
        /\ loaded = "ledger"
        /\ failures = 0
        /\ edits = 0
        /\ Len(Cycles) >= 2
        /\ DownloadCycles(p) = {1}
        /\ localFiles[p].content = "r0"
        /\ cur.upDone
        /\ cur.downDone

(***************************************************************************)
(* Soft Ledger load.                                                       *)
(***************************************************************************)
\* C11 (soft Ledger load): when the document found at startup is damaged
\* (text json cannot parse, or JSON of another shape), _load_metadata returns
\* the empty Ledger, and no cycle of a run without injected failures ends in
\* sync()'s exception handler.
C11_SoftLedgerLoad ==
    (pc # "load" /\ Cycles[1].doc0 # "complete") =>
        /\ loaded = "ledger"
        /\ Cycles[1].ledger0 = EmptyDict
        /\ failures = 0 => \A k \in 1..Len(Cycles) : ~Cycles[k].aborted

\* The part of C11 the code keeps: after a document json cannot parse, a cycle
\* uploaded a local file again and wrote the document.
C11_UnparseableReconciled ==
    /\ Cycles[1].doc0 = "truncated"
    /\ loaded = "ledger"
    /\ Cycles[1].up # {}
    /\ Cycles[1].saved
    /\ metadataFile.state = "complete"

(***************************************************************************)
(* Phase ordering.                                                         *)
(***************************************************************************)
\* Positions of an upload worker and of a download worker that has not
\* finished.
UpStates == {"up_queued", "resolve", "create", "put"}

DownStates == {"down_queued", "fetch", "open", "write"}

\* C12 (phase ordering): while an upload worker of the cycle has not finished,
\* the main thread is inside sync_up's pool, the remote scan and the
\* download-direction detection have not run and no download worker exists;
\* the remote scan and the detection run with no worker unfinished; the
\* document is written (by sync() or by the interrupt handler) with no worker
\* unfinished, and by sync() only after both phases are over.
C12_PhaseOrdering ==
    /\ \A p \in Paths :
          wpc[p] \in UpStates =>
              /\ pc \in {"up_pool", "int_wait"}
              /\ \A q \in Paths : wpc[q] \notin DownStates
              /\ ~cur.upDone
              /\ cur.down = {}
              /\ cur.conflicts = {}
              /\ cur.triedDown = {}
              /\ ~cur.scanFailed
    /\ pc \in {"sync_down", "scan_pool", "detect"} => Unfinished = {}
    /\ pc \in {"save", "save_write", "int_save", "int_save_write"} =>
          Unfinished = {}
    /\ pc \in {"save", "save_write"} => (cur.upDone /\ cur.downDone)
    /\ cur.saved => cur.downDone
    /\ cur.downDone => cur.upDone
    /\ (cur.down # {} \/ cur.triedDown # {}) => cur.upDone

\* The case of C12: a cycle uploaded a file, then downloaded a file, then wrote
\* the document.
C12_AllThreePhases ==
    /\ cur.triedUp # {}
    /\ cur.triedDown # {}
    /\ cur.saved

(***************************************************************************)
(* Work lists.                                                             *)
(***************************************************************************)
\* C13 (disjoint work lists): in a run without injected failures, no cycle
\* schedules a path both for upload and for download.
C13_DisjointWorkLists ==
    failures = 0 =>
        \A k \in 1..Len(Cycles) : Cycles[k].up \cap Cycles[k].down = {}

\* A cycle scheduled uploads and downloads, of different paths.
C13_BothListsUsed ==
    /\ failures = 0
    /\ cur.up # {}
    /\ cur.down # {}
    /\ cur.up \cap cur.down = {}

(***************************************************************************)
(* Concurrency bounds, PoolSpec.                                           *)
(***************************************************************************)
\* C14 (transfer concurrency bound): in a transfer phase at most MAX_WORKERS
\* transfers are in progress, every work item is queued, in progress or
\* finished, and the Ledger has been assigned once for each transfer that
\* succeeded and never for another.
C14_TransferBound ==
    /\ executor.running <= MAX_WORKERS
    /\ executor.queued + executor.running + executor.ok + executor.err
         = executor.items
    /\ executor.writes = executor.ok

\* The case of C14: every thread of the pool runs a transfer and a work item
\* waits in the queue.
C14_PoolFull ==
    /\ executor.running = MAX_WORKERS
    /\ executor.queued > 0

RECURSIVE SumOver(_, _)
SumOver(f, S) ==
    IF S = {} THEN 0
    ELSE LET i == CHOOSE x \in S : TRUE IN f[i] + SumOver(f, S \ {i})

\* Threads inside a call of the remote API: transfers in progress, folders
\* being listed, subfolders being listed.
ApiCallers ==
    executor.running
      + Cardinality({i \in Folders1 : scanTree.folder[i] = "listing"})
      + SumOver(scanTree.listing, Folders1)

\* C19 (remote API call bound): at most MAX_WORKERS threads are inside a call
\* of the remote API at any moment, the recursive scan included.
C19_ApiCallBound == ApiCallers <= MAX_WORKERS

\* The scan of the root runs one pool of its own and respects its limit.
C19_RootPoolBound ==
    /\ executor.pc = "scan_pool"
    /\ Cardinality(BusyFolders) = ScanFan1
    /\ \E i \in Folders1 : scanTree.listing[i] > 0

(***************************************************************************)
(* Cancellation.                                                           *)
(***************************************************************************)
\* C15 (cancellation within a phase): after the interrupt, no work item that
\* is still queued is started, and no cycle is started.
C15_NothingStartsAfterInterrupt ==
    [][interrupts = 1 =>
         /\ \A p \in Paths :
               wpc[p] \in {"up_queued", "down_queued"} =>
                   wpc'[p] \in {"up_queued", "down_queued", "none"}
         /\ cycle' = cycle]_vars

\* The part of C15 the code keeps: the interrupt arrived while a transfer was
\* in flight, the main thread waits for it.
C15_InFlightAwaited ==
    /\ interrupts = 1
    /\ pc = "int_wait"
    /\ Running # {}

(***************************************************************************)
(* No deletion.                                                            *)
(***************************************************************************)
\* The relative paths that have a remote object.
RemotePaths(files) == {PathOf(i[2]) : i \in DOMAIN files}

\* C16 (no deletion): no step removes a local file, a remote object or a
\* remote folder: the set of local paths, the set of remote objects and the
\* set of remote paths never shrink, whatever the Ledger holds.
C16_NoDeletion ==
    [][/\ DOMAIN localFiles \subseteq DOMAIN localFiles'
       /\ DOMAIN driveFiles \subseteq DOMAIN driveFiles'
       /\ RemotePaths(driveFiles) \subseteq RemotePaths(driveFiles')
       /\ driveFolders \subseteq driveFolders']_vars

\* The case of C16: the document was damaged, the run started from the empty
\* Ledger with files on both sides that the Ledger does not know, and a cycle
\* has run through both phases and written the document.
C16_EmptyLedgerCycleDone ==
    /\ Cycles[1].doc0 = "truncated"
    /\ DOMAIN Cycles[1].local0 # {}
    /\ RemotePaths(Cycles[1].drive0) # {}
    /\ DOMAIN Cycles[1].local0 # RemotePaths(Cycles[1].drive0)
    /\ Cycles[1].triedUp # {}
    /\ Cycles[1].triedDown # {}
    /\ Cycles[1].saved

(***************************************************************************)
(* The direction rules.                                                    *)
(***************************************************************************)
\* Path p of the remote scan when sync_down decides: (a) absent locally, or
\* (b) present locally, recorded, remote modifiedTime different from the
\* recorded one, local mtime equal to the recorded one.
RuleDownload(p) ==
    \/ p \notin DOMAIN localFiles
    \/ /\ p \in DOMAIN localFiles
       /\ p \in DOMAIN metadata
       /\ drive_files[p].mtime # metadata[p].drive_mtime
       /\ localFiles[p].mtime = metadata[p].mtime

\* Path p of the remote scan is present locally and recorded, the remote
\* modifiedTime and the local mtime both differ from the recorded ones.
RuleConflict(p) ==
    /\ p \in DOMAIN localFiles
    /\ p \in DOMAIN metadata
    /\ drive_files[p].mtime # metadata[p].drive_mtime
    /\ localFiles[p].mtime # metadata[p].mtime

\* C17 (download-direction rule): the step in which sync_down decides
\* schedules exactly the paths of the remote scan that are absent locally or
\* changed remotely and unchanged locally, each with the object the scan
\* returned, and reports exactly the paths changed on both sides as
\* conflicts; only scheduled paths are ever downloaded.
C17_DownloadRule ==
    [][/\ (pc = "detect" /\ pc' \in {"down_pool", "save"}) =>
            /\ DOMAIN files_to_download' =
                   {p \in DOMAIN drive_files : RuleDownload(p)}
            /\ \A p \in DOMAIN files_to_download' :
                   files_to_download'[p] = drive_files[p]
            /\ cur'.down = DOMAIN files_to_download'
            /\ cur'.conflicts = {p \in DOMAIN drive_files : RuleConflict(p)}
            /\ \A p \in DOMAIN drive_files \cap DOMAIN localFiles :
                   p \notin DOMAIN metadata => p \notin cur'.down
       /\ cur'.triedDown \subseteq cur'.down]_vars

\* The case of C17: one cycle's decision scheduled a download and reported a
\* conflict.
C17_DownloadAndConflict ==
    /\ cur.down # {}
    /\ cur.conflicts # {}
    /\ cur.triedDown # {}

\* The upload-direction rule on the state at the start of cycle c: present
\* locally, and absent from the Ledger or with a local mtime strictly greater
\* than the recorded one.
RuleUpload(c) ==
    {p \in DOMAIN c.local0 :
        \/ p \notin DOMAIN c.ledger0
        \/ /\ p \in DOMAIN c.ledger0
           /\ c.local0[p].mtime > c.ledger0[p].mtime}

\* C18 (upload-direction rule): the work list of sync_up is exactly the set
\* of local paths that are absent from the Ledger or have a local mtime
\* strictly greater than the recorded one, and only those are ever uploaded.
C18_UploadRule ==
    /\ \A k \in 1..Len(Cycles) :
          Cycles[k].n >= 1 =>
              /\ Cycles[k].up \subseteq RuleUpload(Cycles[k])
              /\ Cycles[k].triedUp \subseteq Cycles[k].up
              /\ (Cycles[k].up # {} \/ Cycles[k].upDone) =>
                     Cycles[k].up = RuleUpload(Cycles[k])
    /\ (pc = "up_pool" \/ cur.upDone) => files_to_upload = RuleUpload(cur)

\* The case of C18: sync_up has decided in a cycle that started with a
\* recorded file edited since, which it scheduled, and a recorded file with a
\* local mtime smaller than the recorded one, which it did not.
C18_NewerUploadedOlderNot ==
    /\ cur.upDone
    /\ \E p \in cur.up : p \in DOMAIN cur.ledger0
    /\ \E q \in DOMAIN cur.local0 \ cur.up :
          /\ q \in DOMAIN cur.ledger0
          /\ cur.local0[q].mtime < cur.ledger0[q].mtime

(***************************************************************************)
(* Downloads and the next upload phase.                                    *)
(***************************************************************************)
\* C20 (a download never causes an upload): a path whose download was
\* started in the previous cycle, and which the user has not edited since,
\* is not scheduled for upload by the cycle in progress.
C20_DownloadNeverCausesUpload ==
    hist # <<>> =>
        \A p \in Prev.triedDown \ Prev.editedAfter : p \notin cur.up

\* The part of C20 the code keeps: the previous cycle downloaded a path
\* without failure, and the upload phase of the cycle in progress is over.
C20_AfterCompleteDownload ==
    /\ hist # <<>>
    /\ Prev.triedDown # {}
    /\ Prev.failedDown = {}
    /\ Prev.editedAfter = {}
    /\ cur.upDone

(***************************************************************************)
(* Aggregate counts.                                                       *)
(***************************************************************************)
\* C21 (aggregate counts): when the pool of an upload phase has ended, the
\* count sync_up prints is the number of uploads of the phase that did not
\* fail; when the pool of a download phase has ended, the count sync_down
\* prints is the number of downloads of the phase that did not fail.
C21_CountsAreSuccesses ==
    /\ (cur.up # {} /\ cur.upDone) =>
          uploaded = Cardinality(cur.up \ cur.failedUp)
    /\ (cur.down # {} /\ cur.downDone) =>
          downloaded = Cardinality(cur.down \ cur.failedDown)

\* The part of C21 the code keeps: both phases of a cycle ended with every
\* transfer successful, and the counts are the sizes of the work lists.
C21_AllSucceededCounted ==
    /\ cur.up # {}
    /\ cur.down # {}
    /\ cur.downDone
    /\ cur.failedUp = {}
    /\ cur.failedDown = {}
    /\ uploaded = Cardinality(cur.up)
    /\ downloaded = Cardinality(cur.down)
    /\ \A p \in cur.up \cup cur.down : p \in DOMAIN metadata

=============================================================================
